---------------------------- MODULE Spec2Model ----------------------------
(***************************************************************************)
(* A model of the truck-factor engine: the truck-factor selector           *)
(* (compute_factor.py), the blame-log parser and per-file ownership        *)
(* (blame_parser.py), the mailmap reader (mail_mapper.py) and the          *)
(* ownership fold (truck_factor.py), and the threads of                    *)
(* generate_blame_logs with their LogsCollector.                           *)
(*                                                                         *)
(* Representation.  A Python dict is a sequence of <<key, value>> pairs    *)
(* with distinct keys, in insertion order (dicts iterate in insertion      *)
(* order, and both max() and sorted() observe that order).  Knowledge      *)
(* values are floats: each is held as the exact double Python computes,    *)
(* and every float operation rounds as IEEE-754 does.  In the selectors    *)
(* applied to int tallies, a ratio x / total compared with                 *)
(* critical_loss is compared exactly, critical_loss being a percentage.    *)
(***************************************************************************)
EXTENDS Integers, Sequences, FiniteSets, TLC

VARIABLES
    \* ---- selector (compute_factor.py)
    knowledge,        \* the total handed to a selector
    tally,            \* the dict handed to a selector
    critical_loss,    \* critical loss, in percent
    file_tf,          \* outcome of compute_truck_factor_from_file_authorship
    knowledge_tf,     \* outcome of compute_truck_factor_from_knowledge_base
    \* ---- parse_log (blame_parser.py)
    blame_blocks,     \* the blame log being parsed, as its blocks
    pos,              \* index of the next line of the log the for loop reads
    parser,           \* the locals of parse_log: commits, prev, author,
                      \* authorEmail, timestamp, authors
    parse_done,       \* parse_log has returned
    \* ---- read_mailmap and use_mailmap
    mailmap_lines,    \* the lines of the mailmap file handed to read_mailmap
    mm,               \* outcome of read_mailmap
    contributions,    \* the dict handed to use_mailmap (parse_log's result)
    mapped,           \* outcome of use_mailmap
    \* ---- get_mailmap (mail_mapper.py)
    fs,               \* the file system: path -> [exists, lines]
    path_to_mailmap,  \* the --mailmap-path argument
    history,          \* get_authors_of_repo(): the name|<email> lines, in
                      \* the order the set is iterated
    gm,               \* outcome of get_mailmap
    \* ---- compute_ownership and compute_truck_factor (truck_factor.py)
    blame_logs,       \* path_to_blame_logs: the logs, each [path, lines]
    mail_map,         \* mail_to_mail, the mapping get_mailmap returned to
                      \* compute_ownership
    next_file,        \* index of the next log the for loop folds
    authored_files,   \* dict author -> number of files authored
    knowledge_base,   \* dict author -> knowledge value
    total_files,      \* compute_truck_factor's sum(authored_files.values())
    total_knowledge_base,  \* and its sum(knowledge_base.values())
    own_fn,           \* the function called: "compute_ownership" or
                      \* "compute_knowlede_authorship"
    own_pc,           \* "start", then "folding" once get_mailmap returned
                      \* ("raised" when it raised), then "done" once
                      \* compute_truck_factor ran or "returned" once
                      \* compute_knowlede_authorship returned
    \* ---- compute_lines_value (blame_parser.py)
    decay_commit,     \* the Commit handed to compute_lines_value
    lines_value,      \* outcome of compute_lines_value
    \* ---- generate_blame_logs and run (truck_factor.py)
    tracked_files,    \* list(files): the tracked files, in the order the set
                      \* is listed
    included_files,   \* the extensions of --included-files
    cpu_count,        \* multiprocessing.cpu_count()
    threads,          \* the worker threads: [pc, done, paths] each, done the
                      \* number of files of its chunk already processed
    next_thread,      \* index of the thread the main thread starts or joins
    lock,             \* LogsCollector._lock: 0 when free, else its holder
    all_logs,         \* LogsCollector._all_logs
    omitted_extenstions,  \* the set of extensions left out
    returned_logs,    \* what generate_blame_logs returned to run
    gen_pc            \* the main thread: "start", "join", "returned",
                      \* "aggregating"

selVars == <<knowledge, tally, critical_loss, file_tf, knowledge_tf>>
parseVars == <<blame_blocks, pos, parser, parse_done>>
mapVars == <<mailmap_lines, mm, contributions, mapped>>
getVars == <<fs, path_to_mailmap, history, gm>>

ownVars == <<blame_logs, mail_map, next_file, authored_files, knowledge_base,
             total_files, total_knowledge_base, own_fn, own_pc>>

decayVars == <<decay_commit, lines_value>>

genVars == <<tracked_files, included_files, cpu_count, threads, next_thread, lock,
             all_logs, omitted_extenstions, returned_logs, gen_pc>>

vars == <<selVars, parseVars, mapVars, getVars, ownVars, decayVars, genVars>>

---------------------------------------------------------------------------
(* Bounds of the model *)

MaxVal == 2
MaxTotal == 6
MaxEntries == 3
MaxCount == 2
MaxBlocks == 2
MaxMailmapLines == 2
MaxMails == 2
MaxHistory == 3
MaxFiles == 3
MaxLines == 6
MaxHalfDays == 10
MaxTracked == 3
MaxCpu == 2

Authors == {"A", "B", "C"}
CriticalLosses == {0, 25, 50, 75, 100}
Emails == {"a@x", "b@x"}
Times == {86400, 172800}
MapEmails == {"a@x", "b@x", "c@x"}

\* critical_loss: float = 0.5, the default of both selectors, in percent
DefaultCriticalLoss == 50

---------------------------------------------------------------------------
(* Python dicts as sequences of <<key, value>> pairs *)

Keys(d) == {d[i][1] : i \in DOMAIN d}

DictHas(d, k) == \E i \in DOMAIN d : d[i][1] = k

DictGet(d, k) == d[CHOOSE i \in DOMAIN d : d[i][1] = k][2]

\* d[k] = v: an existing key keeps its place, a new key goes last
DictSet(d, k, v) ==
    IF DictHas(d, k)
    THEN [i \in DOMAIN d |-> IF d[i][1] = k THEN <<k, v>> ELSE d[i]]
    ELSE Append(d, <<k, v>>)

\* the dict as a set of items: equal iff same keys and same value per key
Items(d) == {d[i] : i \in DOMAIN d}

IsDict(d) == \A i, j \in DOMAIN d : d[i][1] = d[j][1] => i = j

RECURSIVE SumValues(_)
SumValues(d) == IF d = <<>> THEN 0 ELSE d[1][2] + SumValues(Tail(d))

\* every dict over the keys K and the values V with at most n entries
DictsOver(K, V, n) ==
    {d \in UNION {[1..m -> K \X V] : m \in 0..n} : IsDict(d)}

---------------------------------------------------------------------------
(* Python floats *)

\* A float is an IEEE-754 double.  Every float the model meets is a whole
\* number of 2^-55, and is held as that whole number written in three
\* digits of base FloatBase = 2^30: <<d2, d1, d0>> stands for
\* (d2 * FloatBase^2 + d1 * FloatBase + d0) * 2^-55, with
\* 0 <= d1, d0 < FloatBase, and d2 < 0 for a negative float.
FloatBase == 1073741824

FloatZero == <<0, 0, 0>>

\* a double carries 53 significant bits
MantissaBits == 53

\* the exact (real) sum, negation, difference and order of two values
exact_add(x, y) ==
    LET s0 == x[3] + y[3]
        s1 == x[2] + y[2] + s0 \div FloatBase
    IN <<x[1] + y[1] + s1 \div FloatBase, s1 % FloatBase, s0 % FloatBase>>

exact_neg(x) ==
    IF x[3] # 0 THEN <<-x[1] - 1, FloatBase - 1 - x[2], FloatBase - x[3]>>
    ELSE IF x[2] # 0 THEN <<-x[1] - 1, FloatBase - x[2], 0>>
    ELSE <<-x[1], 0, 0>>

exact_sub(x, y) == exact_add(x, exact_neg(y))

exact_lt(x, y) ==
    \/ x[1] < y[1]
    \/ x[1] = y[1] /\ x[2] < y[2]
    \/ x[1] = y[1] /\ x[2] = y[2] /\ x[3] < y[3]

exact_le(x, y) == x = y \/ exact_lt(x, y)

exact_abs(x) == IF x[1] < 0 THEN exact_neg(x) ELSE x

\* half a digit: FloatBase = HalfBase^2
HalfBase == 32768

\* n * x for an int 0 <= n < FloatBase and a magnitude x >= 0, exactly:
\* long multiplication on the half digits of x and of n
magnitude_times(n, x) ==
    LET nl == n % HalfBase
        nh == n \div HalfBase
        h0 == x[3] % HalfBase
        h1 == x[3] \div HalfBase
        h2 == x[2] % HalfBase
        h3 == x[2] \div HalfBase
        h4 == x[1] % HalfBase
        h5 == x[1] \div HalfBase
        c0 == h0 * nl
        c1 == h1 * nl + h0 * nh + (c0 \div HalfBase)
        c2 == h2 * nl + h1 * nh + (c1 \div HalfBase)
        c3 == h3 * nl + h2 * nh + (c2 \div HalfBase)
        c4 == h4 * nl + h3 * nh + (c3 \div HalfBase)
        c5 == h5 * nl + h4 * nh + (c4 \div HalfBase)
    IN <<c5 * HalfBase + (c4 % HalfBase),
         (c3 % HalfBase) * HalfBase + (c2 % HalfBase),
         (c1 % HalfBase) * HalfBase + (c0 % HalfBase)>>

\* n * x for an int 0 <= n < FloatBase, exactly
exact_times(n, x) ==
    IF x[1] < 0 THEN exact_neg(magnitude_times(n, exact_neg(x))) ELSE magnitude_times(n, x)

\* the number of binary digits of a digit 0 <= n < FloatBase
bit_length(n) == IF n = 0 THEN 0 ELSE CHOOSE k \in 1..30 : 2^(k - 1) <= n /\ n < 2^k

\* the number of low bits a magnitude x >= 0 cannot keep
dropped_bits(x) ==
    LET bits == IF x[1] > 0 THEN 60 + bit_length(x[1])
                ELSE IF x[2] > 0 THEN 30 + bit_length(x[2])
                ELSE bit_length(x[3])
    IN IF bits > MantissaBits THEN bits - MantissaBits ELSE 0

\* round-to-nearest, ties-to-even, of a magnitude x >= 0 to a multiple of
\* 2^s, for the s of a double below 2^35
round_to_bits(x, s) ==
    IF s = 0 THEN x
    ELSE IF s < 30
    THEN LET m == 2^s
             r == x[3] % m
             down == <<x[1], x[2], x[3] - r>>
         IN IF 2 * r < m \/ (2 * r = m /\ (x[3] \div m) % 2 = 0) THEN down
            ELSE exact_add(down, <<0, 0, m>>)
    ELSE IF s = 30
    THEN LET down == <<x[1], x[2], 0>>
         IN IF 2 * x[3] < FloatBase \/ (2 * x[3] = FloatBase /\ x[2] % 2 = 0) THEN down
            ELSE exact_add(down, <<0, 1, 0>>)
    ELSE LET m == 2^(s - 30)
             r == x[2] % m
             down == <<x[1], x[2] - r, 0>>
         IN IF 2 * r < m \/ (2 * r = m /\ x[3] = 0 /\ (x[2] \div m) % 2 = 0) THEN down
            ELSE exact_add(down, <<0, m, 0>>)

round_magnitude(x) == round_to_bits(x, dropped_bits(x))

\* the double nearest to the exact value x
float_round(x) ==
    IF x[1] < 0 THEN exact_neg(round_magnitude(exact_neg(x))) ELSE round_magnitude(x)

\* x + y, x - y and n * x as Python computes them: the exact result,
\* rounded once
float_add(x, y) == float_round(exact_add(x, y))

float_sub(x, y) == float_round(exact_sub(x, y))

float_mul_int(n, x) == float_round(exact_times(n, x))

\* sum(d.values()) of a dict of floats: the values added from the left
RECURSIVE float_sum_from(_, _)
float_sum_from(acc, d) ==
    IF d = <<>> THEN acc ELSE float_sum_from(float_add(acc, d[1][2]), Tail(d))

float_sum(d) == float_sum_from(FloatZero, d)

---------------------------------------------------------------------------
(* compute_factor.py *)

\* sorted(d.items(), key=lambda item: item[1], reverse=True): descending by
\* value, and stable (items of equal value keep their dict order)
RECURSIVE sorted_by_value_reverse(_)
sorted_by_value_reverse(items) ==
    IF items = <<>> THEN <<>>
    ELSE LET n == Len(items)
             x == items[n]
             rest == sorted_by_value_reverse(SubSeq(items, 1, n - 1))
             p == Cardinality({i \in DOMAIN rest : rest[i][2] >= x[2]})
         IN SubSeq(rest, 1, p) \o <<x>> \o SubSeq(rest, p + 1, Len(rest))

Done(tf) == [status |-> "ok", tf |-> tf]
Raised(what, tf) == [status |-> what, tf |-> tf]
NotCalled == [status |-> "none", tf |-> <<>>]

\* (knowledge_left / knowledge) < critical_loss, for knowledge > 0
file_stop_le(knowledge_left, total, cl) == knowledge_left * 100 <= cl * total
file_stop(knowledge_left, total, cl) == knowledge_left * 100 < cl * total

\* (knowledge_left / total_knowledge) <= critical_loss, for total_knowledge > 0
knowledge_stop_lt(knowledge_left, total, cl) == knowledge_left * 100 < cl * total
knowledge_stop(knowledge_left, total, cl) == knowledge_left * 100 <= cl * total

\* the for loop of compute_truck_factor_from_file_authorship from the i-th
\* sorted author on; the division raises when knowledge is 0
RECURSIVE file_authorship_loop(_, _, _, _, _, _)
file_authorship_loop(sorted_authors, i, knowledge_left, truck_factor, total, cl) ==
    IF i > Len(sorted_authors) THEN Done(truck_factor)
    ELSE LET author == sorted_authors[i][1]
             files_authored == sorted_authors[i][2]
             tf == Append(truck_factor, <<author, files_authored, total>>)
             left == knowledge_left - files_authored
         IN IF total = 0 THEN Raised("ZeroDivisionError", tf)
            ELSE IF file_stop(left, total, cl) THEN Done(tf)
            ELSE file_authorship_loop(sorted_authors, i + 1, left, tf, total, cl)

compute_truck_factor_from_file_authorship(total, authored, cl) ==
    file_authorship_loop(sorted_by_value_reverse(authored), 1, total, <<>>, total, cl)

RECURSIVE knowledge_base_loop(_, _, _, _, _, _)
knowledge_base_loop(sorted_owners, i, knowledge_left, truck_factor, total, cl) ==
    IF i > Len(sorted_owners) THEN Done(truck_factor)
    ELSE LET owner == sorted_owners[i][1]
             owned == sorted_owners[i][2]
             tf == Append(truck_factor, <<owner, owned, total>>)
             left == knowledge_left - owned
         IN IF total = 0 THEN Raised("ZeroDivisionError", tf)
            ELSE IF knowledge_stop(left, total, cl) THEN Done(tf)
            ELSE knowledge_base_loop(sorted_owners, i + 1, left, tf, total, cl)

compute_truck_factor_from_knowledge_base(total, base, cl) ==
    knowledge_base_loop(sorted_by_value_reverse(base), 1, total, <<>>, total, cl)

\* compute_truck_factor_from_knowledge_base as compute_truck_factor calls
\* it: the values and the total are floats, critical_loss is left at 0.5.
\* The sort is the same stable, descending sort.
RECURSIVE sorted_by_float_reverse(_)
sorted_by_float_reverse(items) ==
    IF items = <<>> THEN <<>>
    ELSE LET n == Len(items)
             x == items[n]
             rest == sorted_by_float_reverse(SubSeq(items, 1, n - 1))
             p == Cardinality({i \in DOMAIN rest : exact_le(x[2], rest[i][2])})
         IN SubSeq(rest, 1, p) \o <<x>> \o SubSeq(rest, p + 1, Len(rest))

\* (knowledge_left / total_knowledge) <= 0.5 for floats, total_knowledge > 0.
\* The quotient is rounded, but not across 0.5: a double above the double
\* total / 2 exceeds it by more than one part in 2^53, so its quotient lies
\* above 0.5 + 2^-54 and rounds above 0.5.
float_knowledge_stop(knowledge_left, total) ==
    exact_le(exact_add(knowledge_left, knowledge_left), total)

\* the for loop on floats: knowledge_left -= knowledge is a float
\* subtraction, and the division raises when total_knowledge is 0
RECURSIVE float_knowledge_base_loop(_, _, _, _, _)
float_knowledge_base_loop(sorted_owners, i, knowledge_left, truck_factor, total) ==
    IF i > Len(sorted_owners) THEN Done(truck_factor)
    ELSE LET owner == sorted_owners[i][1]
             owned == sorted_owners[i][2]
             tf == Append(truck_factor, <<owner, owned, total>>)
             left == float_sub(knowledge_left, owned)
         IN IF total = FloatZero THEN Raised("ZeroDivisionError", tf)
            ELSE IF float_knowledge_stop(left, total) THEN Done(tf)
            ELSE float_knowledge_base_loop(sorted_owners, i + 1, left, tf, total)

float_compute_truck_factor_from_knowledge_base(total, base) ==
    float_knowledge_base_loop(sorted_by_float_reverse(base), 1, total, <<>>, total)

---------------------------------------------------------------------------
(* blame_parser.py: parse_log *)

\* A line of a blame log, as the four re.match tests of parse_log class it:
\* a sha line carries its trailing integer in n, an author-time line its
\* Unix seconds in n, an author line the name in s, an author-mail line the
\* text between the angle brackets in s; any other line matches nothing.
ShaLine(count) == [kind |-> "sha", n |-> count, s |-> ""]
AuthorLine(name) == [kind |-> "author", n |-> 0, s |-> name]
AuthorMailLine(mail) == [kind |-> "author-mail", n |-> 0, s |-> mail]
AuthorTimeLine(time) == [kind |-> "author-time", n |-> time, s |-> ""]
OtherLine == [kind |-> "other", n |-> 0, s |-> ""]

\* the dataclass Commit(lines, date, file)
Commit(lines, date, file) == [lines |-> lines, date |-> date, file |-> file]

\* d[k].append(x) on a defaultdict(list)
DictAppend(d, k, x) ==
    DictSet(d, k, (IF DictHas(d, k) THEN DictGet(d, k) ELSE <<>>) \o <<x>>)

\* the locals of parse_log before the first line
parse_log_start ==
    [commits |-> <<>>, prev |-> 0, author |-> "", authorEmail |-> "",
     timestamp |-> 0, authors |-> <<>>]

\* a sha line: the pending count, if any, is filed under the current email
\* and timestamp; then the count of this line becomes the pending one
sha_line_eager(st, line, path) ==
    [st EXCEPT !.commits = DictAppend(@, st.authorEmail,
                                      Commit(line.n, st.timestamp, path)),
               !.prev = line.n]
sha_line_resetting(st, line, path) ==
    [st EXCEPT !.commits = IF st.prev > 0
                           THEN DictAppend(@, st.authorEmail,
                                           Commit(st.prev, st.timestamp, path))
                           ELSE @,
               !.prev = line.n,
               !.authorEmail = "",
               !.timestamp = 0]
sha_line(st, line, path) ==
    [st EXCEPT !.commits = IF st.prev > 0
                           THEN DictAppend(@, st.authorEmail,
                                           Commit(st.prev, st.timestamp, path))
                           ELSE @,
               !.prev = line.n]

author_line(st, line) == [st EXCEPT !.author = line.s]

author_time_line(st, line) == [st EXCEPT !.timestamp = line.n]

author_mail_line(st, line) ==
    [st EXCEPT !.authorEmail = line.s,
               !.authors = DictSet(@, line.s, st.author)]

\* one iteration of "for line in log"
parse_line(st, line, path) ==
    CASE line.kind = "sha" -> sha_line(st, line, path)
      [] line.kind = "author" -> author_line(st, line)
      [] line.kind = "author-time" -> author_time_line(st, line)
      [] line.kind = "author-mail" -> author_mail_line(st, line)
      [] OTHER -> st

\* after the loop: the pending count is filed, whatever it is
end_of_log_guarded(st, path) ==
    IF st.prev > 0
    THEN [st EXCEPT !.commits = DictAppend(@, st.authorEmail,
                                           Commit(st.prev, st.timestamp, path))]
    ELSE st
end_of_log(st, path) ==
    [st EXCEPT !.commits = DictAppend(@, st.authorEmail,
                                      Commit(st.prev, st.timestamp, path))]

\* the for loop over the lines; the locals after a line are worked out
\* before the next line is read (a line that matches nothing leaves them
\* as they are)
RECURSIVE parse_lines(_, _, _)
parse_lines(st, lines, path) ==
    IF lines = <<>> THEN st
    ELSE LET next == parse_line(st, Head(lines), path)
         IN IF next = st THEN parse_lines(st, Tail(lines), path)
            ELSE parse_lines(next, Tail(lines), path)

\* parse_log(blame_log_path), the file at that path holding lines
parse_log(lines, path) == end_of_log(parse_lines(parse_log_start, lines, path), path).commits

---------------------------------------------------------------------------
(* mail_mapper.py *)

\* A line of a mailmap file, as read_mailmap takes it apart: lead is the
\* class of its first character ("#", "newline" for a line that is only a
\* line break, "text" otherwise), name the text before the first "<", mails
\* the texts between angle brackets, in order, and rest the words after the
\* last bracket.
MailmapLine(lead, name, mails, rest) ==
    [lead |-> lead, name |-> name, mails |-> mails, rest |-> rest]

Returned(mail_to_mail, mail_to_name) ==
    [status |-> "ok", mail_to_mail |-> mail_to_mail, mail_to_name |-> mail_to_name]
Failed(what) == [status |-> what, mail_to_mail |-> <<>>, mail_to_name |-> <<>>]
NoOutcome == [status |-> "none", mail_to_mail |-> <<>>, mail_to_name |-> <<>>]

\* for mail in mails[1:]: mail_to_mail[mail] = proper_mail
RECURSIVE map_aliases(_, _, _)
map_aliases(mail_to_mail, aliases, proper_mail) ==
    IF aliases = <<>> THEN mail_to_mail
    ELSE map_aliases(DictSet(mail_to_mail, Head(aliases), proper_mail),
                     Tail(aliases), proper_mail)

\* proper_mail = mails[0]
proper_mail_of(mails) == mails[1]

\* the loop of read_mailmap over the lines of the file; mails[0] raises
\* IndexError on a line without any bracketed mail
RECURSIVE read_mailmap_loop(_, _, _)
read_mailmap_loop(lines, mail_to_mail, mail_to_name) ==
    IF lines = <<>> THEN Returned(mail_to_mail, mail_to_name)
    ELSE LET contributor == Head(lines)
         IN IF contributor.lead = "#" \/ contributor.lead = "newline"
            THEN read_mailmap_loop(Tail(lines), mail_to_mail, mail_to_name)
            ELSE IF contributor.mails = <<>> THEN Failed("IndexError")
            ELSE LET proper_mail == proper_mail_of(contributor.mails)
                 IN read_mailmap_loop(
                        Tail(lines),
                        map_aliases(mail_to_mail, Tail(contributor.mails), proper_mail),
                        DictSet(mail_to_name, proper_mail, contributor.name))

read_mailmap(lines) == read_mailmap_loop(lines, <<>>, <<>>)

\* sorted by len, reverse=True: longest first, names of equal length in
\* their list order
RECURSIVE sort_by_len_reverse(_)
sort_by_len_reverse(names) ==
    IF names = <<>> THEN <<>>
    ELSE LET n == Len(names)
             x == names[n]
             rest == sort_by_len_reverse(SubSeq(names, 1, n - 1))
             p == Cardinality({i \in DOMAIN rest : Len(rest[i]) >= Len(x)})
         IN SubSeq(rest, 1, p) \o <<x>> \o SubSeq(rest, p + 1, Len(rest))

\* the class of the first character of a line that starts with this name:
\* read_mailmap takes a line whose first name starts with "#" for a comment
CommentLikeNames == {"#Al"}
lead_of(name) == IF name \in CommentLikeNames THEN "#" ELSE "text"

\* map_mail_to_names: one line "<longest name> <mail> <other names>" per
\* key of the dict
map_mail_to_names_merged(mailmap) ==
    IF mailmap = <<>> THEN <<>>
    ELSE <<MailmapLine(lead_of(mailmap[1][2][1]), mailmap[1][2][1],
                       [i \in DOMAIN mailmap |-> mailmap[i][1]], <<>>)>>
RECURSIVE map_mail_to_names(_)
map_mail_to_names(mailmap) ==
    IF mailmap = <<>> THEN <<>>
    ELSE LET mail == mailmap[1][1]
             names == sort_by_len_reverse(mailmap[1][2])
         IN <<MailmapLine(lead_of(names[1]), names[1], <<mail>>, Tail(names))>>
            \o map_mail_to_names(Tail(mailmap))

\* the loop of format_author_output: a history line is [name, email], the
\* two sides of its "|", email standing for the bracketed "<email>"
RECURSIVE group_names(_, _)
group_names(authors, mailmap) ==
    IF authors = <<>> THEN mailmap
    ELSE group_names(Tail(authors),
                     DictAppend(mailmap, Head(authors).email, Head(authors).name))

format_author_output(authors) == map_mail_to_names(group_names(authors, <<>>))

File(lines) == [exists |-> TRUE, lines |-> lines]
NoFile == [exists |-> FALSE, lines |-> <<>>]

\* create_naive_mailmap: the file system after open(path_to_mailmap, "w")
\* and writelines
create_naive_mailmap(files, authors, path) ==
    [files EXCEPT ![path] = File(format_author_output(authors))]

\* os.path.join(path_to_local_repo, '.mailmap')
RepoMailmapPath == "repo/.mailmap"

\* the path get_mailmap hands to read_mailmap
path_read(files, path) == IF ~files[path].exists THEN RepoMailmapPath ELSE path

\* the file system get_mailmap leaves
fs_after_get_mailmap(files, authors, path) ==
    IF ~files[path].exists THEN create_naive_mailmap(files, authors, path) ELSE files

\* what get_mailmap returns; open() raises on a file that does not exist
get_mailmap(files, authors, path) ==
    LET after == fs_after_get_mailmap(files, authors, path)
        mailmap_path == path_read(files, path)
    IN IF ~after[mailmap_path].exists THEN Failed("FileNotFoundError")
       ELSE read_mailmap(after[mailmap_path].lines)

---------------------------------------------------------------------------
(* blame_parser.py: use_mailmap *)

\* the mail the fragments of authorMail are filed under
mapped_mail_raw(authorMail, mail_to_mail) == authorMail
mapped_mail(authorMail, mail_to_mail) ==
    IF DictHas(mail_to_mail, authorMail)
    THEN DictGet(mail_to_mail, authorMail)
    ELSE authorMail

\* mappedContributions[k] += commits on a defaultdict(list)
DictExtend(d, k, xs) ==
    DictSet(d, k, (IF DictHas(d, k) THEN DictGet(d, k) ELSE <<>>) \o xs)

RECURSIVE use_mailmap_loop(_, _, _)
use_mailmap_loop(contribs, mail_to_mail, mappedContributions) ==
    IF contribs = <<>> THEN mappedContributions
    ELSE use_mailmap_loop(
             Tail(contribs), mail_to_mail,
             DictExtend(mappedContributions,
                        mapped_mail(contribs[1][1], mail_to_mail),
                        contribs[1][2]))

use_mailmap(contribs, mail_to_mail) == use_mailmap_loop(contribs, mail_to_mail, <<>>)

---------------------------------------------------------------------------
(* blame_parser.py: the value of a file's fragments *)

\* constants.INITIAL_TIMESTAMP, the reference instant of a run, in Unix
\* seconds (three days after the epoch)
INITIAL_TIMESTAMP == 259200

SecondsPerDay == 86400

\* a + (1 - a) * b * (1 + t) ** (-beta) with a = 0.19, b = 0.78,
\* beta = 0.68, for t >= 0: the double Python computes
knowledge_retention_function(t) ==
    CASE t = 0 -> <<0, 27575032, 233646224>>     \* 0.8218000000000001
      [] t = 1 -> <<0, 19607452, 529362392>>     \* 0.5843476203980191
      [] t = 2 -> <<0, 16418887, 835762710>>     \* 0.4893209868182146
      [] t = 3 -> <<0, 14634365, 974418530>>     \* 0.4361380907147519

\* timeDelta.days: whole days, rounded down
DaysBetween(later, earlier) == (later - earlier) \div SecondsPerDay

\* commit.lines * weightFactor: an int times a float
compute_lines_value(commit) ==
    float_mul_int(commit.lines,
                  knowledge_retention_function(DaysBetween(INITIAL_TIMESTAMP, commit.date)))

\* the same expression for 1 + t < 0: Python's float power of a negative
\* base returns a complex number, and so does the function; <<re, im>>
complex_knowledge_retention_function(t) ==
    CASE t = -2 -> << <<-1, 1068757804, 63374328>>, <<-1, 1055842333, 649436276>> >>
                   \* (-0.14853536906773024-0.5334463833321731j)
      [] t = -3 -> << <<-1, 1073027046, 823119926>>, <<-1, 1062569583, 714008316>> >>
                   \* (-0.021302021545464733-0.33295870825731566j)
      [] t = -4 -> << <<0, 993741, 191362443>>, <<-1, 1065261777, 961874102>> >>
                   \* (0.029615794963245484-0.2527250678594391j)

\* outcomes of a call of compute_lines_value: a number re + im j (im = 0
\* for a float), or the exception raised
LinesValue(re, im) == [status |-> "ok", re |-> re, im |-> im]
LinesValueRaised(what) == [status |-> what, re |-> FloatZero, im |-> FloatZero]
NoLinesValue == [status |-> "none", re |-> FloatZero, im |-> FloatZero]

\* compute_lines_value(commit) for a commit of any date: timeDelta.days is
\* negative for a date after INITIAL_TIMESTAMP, 0.0 ** (-beta) raises, and a
\* negative base gives a complex weightFactor, which the int multiplies
\* part by part
compute_lines_value_call(commit) ==
    LET t == DaysBetween(INITIAL_TIMESTAMP, commit.date)
    IN IF 1 + t > 0 THEN LinesValue(compute_lines_value(commit), FloatZero)
       ELSE IF 1 + t = 0 THEN LinesValueRaised("ZeroDivisionError")
       ELSE LET z == complex_knowledge_retention_function(t)
            IN LinesValue(float_mul_int(commit.lines, z[1]),
                          float_mul_int(commit.lines, z[2]))

\* value = 0, then value += compute_lines_value(commit) for each commit in
\* turn: float additions from the left
RECURSIVE contribution_value_from(_, _)
contribution_value_from(value, commits) ==
    IF commits = <<>> THEN value
    ELSE contribution_value_from(float_add(value, compute_lines_value(Head(commits))),
                                 Tail(commits))

compute_contribution_value(commits) == contribution_value_from(FloatZero, commits)

\* authorWeight: one (author, value) pair per key, in dict order
RECURSIVE author_weights(_)
author_weights(author_contributions) ==
    IF author_contributions = <<>> THEN <<>>
    ELSE <<<<author_contributions[1][1],
             compute_contribution_value(author_contributions[1][2])>>>>
         \o author_weights(Tail(author_contributions))

\* max(authorWeight, key=operator.itemgetter(1))[0]: the first pair of
\* maximal value
max_weight_last(authorWeight) ==
    LET i == CHOOSE i \in DOMAIN authorWeight :
                 /\ \A j \in DOMAIN authorWeight : exact_le(authorWeight[j][2], authorWeight[i][2])
                 /\ \A j \in DOMAIN authorWeight :
                        authorWeight[j][2] = authorWeight[i][2] => j <= i
    IN authorWeight[i][1]
max_weight(authorWeight) ==
    LET i == CHOOSE i \in DOMAIN authorWeight :
                 /\ \A j \in DOMAIN authorWeight : exact_le(authorWeight[j][2], authorWeight[i][2])
                 /\ \A j \in DOMAIN authorWeight :
                        authorWeight[j][2] = authorWeight[i][2] => i <= j
    IN authorWeight[i][1]

\* AuthorContribution(author, contributions); parse_log always files at
\* least one fragment, so the dict handed over is never empty
compute_author(author_contributions) ==
    LET authorWeight == author_weights(author_contributions)
    IN [author |-> max_weight(authorWeight), contributions |-> authorWeight]

compute_knowledge_ownership(blame_log, mapping) ==
    compute_author(use_mailmap(parse_log(blame_log.lines, blame_log.path), mapping))

---------------------------------------------------------------------------
(* truck_factor.py *)

\* one iteration of the loop of map_add_or_increment_knowledge:
\* knowledge_base[author] + knowledge is a float addition
knowledge_overwritten(base, author, value) == DictSet(base, author, value)
knowledge_added(base, author, value) ==
    IF ~DictHas(base, author)
    THEN DictSet(base, author, value)
    ELSE DictSet(base, author, float_add(DictGet(base, author), value))

RECURSIVE map_add_or_increment_knowledge(_, _)
map_add_or_increment_knowledge(base, file_knowledge_base) ==
    IF file_knowledge_base = <<>> THEN base
    ELSE map_add_or_increment_knowledge(
             knowledge_added(base, file_knowledge_base[1][1], file_knowledge_base[1][2]),
             Tail(file_knowledge_base))

map_add_or_increment_authorship(authored, author) ==
    IF ~DictHas(authored, author)
    THEN DictSet(authored, author, 1)
    ELSE DictSet(authored, author, DictGet(authored, author) + 1)

\* the loop of compute_ownership over the logs, from given tallies
RECURSIVE compute_ownership_loop(_, _, _, _)
compute_ownership_loop(logs, mapping, authored, base) ==
    IF logs = <<>> THEN [authored_files |-> authored, knowledge_base |-> base]
    ELSE LET author_contributions == compute_knowledge_ownership(Head(logs), mapping)
         IN compute_ownership_loop(
                Tail(logs), mapping,
                map_add_or_increment_authorship(authored, author_contributions.author),
                map_add_or_increment_knowledge(base, author_contributions.contributions))

\* outcomes of compute_ownership and of compute_knowlede_authorship (which
\* builds no authored_files)
OwnershipReturned(authored, base) ==
    [status |-> "ok", authored_files |-> authored, knowledge_base |-> base]
OwnershipRaised(what) ==
    [status |-> what, authored_files |-> <<>>, knowledge_base |-> <<>>]

\* compute_ownership: get_mailmap first, whose exception ends the call
\* before the loop; the file system it leaves is
\* fs_after_get_mailmap(files, authors, path)
compute_ownership(files, authors, logs, path) ==
    LET m == get_mailmap(files, authors, path)
    IN IF m.status # "ok" THEN OwnershipRaised(m.status)
       ELSE LET r == compute_ownership_loop(logs, m.mail_to_mail, <<>>, <<>>)
            IN OwnershipReturned(r.authored_files, r.knowledge_base)

\* the for loop of compute_knowlede_authorship: the knowledge tally alone
RECURSIVE compute_knowlede_authorship_loop(_, _, _)
compute_knowlede_authorship_loop(logs, mapping, base) ==
    IF logs = <<>> THEN base
    ELSE compute_knowlede_authorship_loop(
             Tail(logs), mapping,
             map_add_or_increment_knowledge(
                 base, compute_knowledge_ownership(Head(logs), mapping).contributions))

compute_knowlede_authorship(files, authors, logs, path) ==
    LET m == get_mailmap(files, authors, path)
    IN IF m.status # "ok" THEN OwnershipRaised(m.status)
       ELSE OwnershipReturned(<<>>, compute_knowlede_authorship_loop(logs, m.mail_to_mail, <<>>))

---------------------------------------------------------------------------
(* truck_factor.py: generate_blame_logs; file_tracking_classes.py:
   LogsCollector *)

\* file.split(".")[-1], replaced by "file" when it holds a path separator
file_extension(file) ==
    CASE file = "a.py" -> "py"
      [] file = "docs/b.md" -> "md"
      [] file = "src/Makefile" -> "file"
      [] file = "c.py" -> "py"

\* os.path.join(local_logs_path, f"{file_name}.log")
path_to_log(file) ==
    CASE file = "a.py" -> "logs/a.py.log"
      [] file = "docs/b.md" -> "logs/docs/b.md.log"
      [] file = "src/Makefile" -> "logs/src/Makefile.log"
      [] file = "c.py" -> "logs/c.py.log"

None == "None"

\* an exception that leaves the call
Raises == "raises"

\* the outcomes of create_git_blame_log: it returns path_to_log, or
\* repo.git().blame(...) or open(path_to_log, 'w') raises, neither being
\* inside a try (git refuses to blame the path, or the directory of the log
\* could not be made)
create_git_blame_log(file) == {path_to_log(file), Raises}

\* the outcomes of process_file: those of create_git_blame_log for an
\* included extension, whose exception it does not catch, or None
process_file(file, included) ==
    IF file_extension(file) \in included THEN create_git_blame_log(file) ELSE {None}

\* math.ceil(len(files) / multiprocessing.cpu_count())
chunk_size(files, cpus) == (Len(files) + cpus - 1) \div cpus

\* list(chunks(list(files), n)): successive n-sized chunks
file_chunks(files, cpus) ==
    LET n == chunk_size(files, cpus)
        m == (Len(files) + n - 1) \div n
    IN [k \in 1..m |->
            SubSeq(files, (k - 1) * n + 1,
                   IF k * n < Len(files) THEN k * n ELSE Len(files))]

\* a Thread object and the locals of its process_list call
Thread(pc, done, paths) == [pc |-> pc, done |-> done, paths |-> paths]

\* thread.join() returns once the thread has ended: its target has
\* returned, or an exception has left it
join_returns(thread) == thread.pc \in {"finished", "raised"}

---------------------------------------------------------------------------
(* The selectors applied to bounded inputs *)

SelIdle ==
    /\ knowledge = 0
    /\ tally = <<>>
    /\ critical_loss = DefaultCriticalLoss
    /\ file_tf = NotCalled
    /\ knowledge_tf = NotCalled

ParseIdle ==
    /\ blame_blocks = <<>>
    /\ pos = 1
    /\ parser = parse_log_start
    /\ parse_done = FALSE

MapIdle ==
    /\ mailmap_lines = <<>>
    /\ mm = NoOutcome
    /\ contributions = <<>>
    /\ mapped = <<>>

Paths == {"mm.txt", RepoMailmapPath}

GetIdle ==
    /\ fs = [p \in Paths |-> NoFile]
    /\ path_to_mailmap = "mm.txt"
    /\ history = <<>>
    /\ gm = NoOutcome

OwnIdle ==
    /\ blame_logs = <<>>
    /\ mail_map = <<>>
    /\ next_file = 1
    /\ authored_files = <<>>
    /\ knowledge_base = <<>>
    /\ total_files = 0
    /\ total_knowledge_base = FloatZero
    /\ own_fn = "compute_ownership"
    /\ own_pc = "idle"

DecayIdle ==
    /\ decay_commit = Commit(0, 0, "")
    /\ lines_value = NoLinesValue

GenIdle ==
    /\ tracked_files = <<>>
    /\ included_files = {}
    /\ cpu_count = 1
    /\ threads = <<>>
    /\ next_thread = 1
    /\ lock = 0
    /\ all_logs = <<>>
    /\ omitted_extenstions = {}
    /\ returned_logs = <<>>
    /\ gen_pc = "idle"

InitSelect ==
    /\ knowledge \in 0..MaxTotal
    /\ tally \in DictsOver(Authors, 0..MaxVal, MaxEntries)
    /\ critical_loss \in CriticalLosses
    /\ file_tf = NotCalled
    /\ knowledge_tf = NotCalled
    /\ ParseIdle /\ MapIdle /\ GetIdle /\ OwnIdle /\ DecayIdle /\ GenIdle

CallFileAuthorship ==
    /\ file_tf = NotCalled
    /\ file_tf' = compute_truck_factor_from_file_authorship(knowledge, tally, critical_loss)
    /\ UNCHANGED <<knowledge, tally, critical_loss, knowledge_tf>>
    /\ UNCHANGED <<parseVars, mapVars, getVars, ownVars, decayVars, genVars>>

CallKnowledgeBase ==
    /\ knowledge_tf = NotCalled
    /\ knowledge_tf' = compute_truck_factor_from_knowledge_base(knowledge, tally, critical_loss)
    /\ UNCHANGED <<knowledge, tally, critical_loss, file_tf>>
    /\ UNCHANGED <<parseVars, mapVars, getVars, ownVars, decayVars, genVars>>

NextSelect == CallFileAuthorship \/ CallKnowledgeBase

SpecSelect == InitSelect /\ [][NextSelect]_vars

---------------------------------------------------------------------------
(* parse_log run line by line over bounded blame logs *)

\* A block of "git blame --incremental": the sha line with its count, then
\* (when the commit is met for the first time) its author, author-mail and
\* author-time lines, then the filename line.  A block is <<count, mail,
\* time>>, mail and time each a sequence of at most one element: the
\* metadata lines may be missing.
BlockChoices ==
    (0..MaxCount) \X ({<<>>} \cup {<<e>> : e \in Emails})
                  \X ({<<>>} \cup {<<t>> : t \in Times})

DisplayName(mail) == IF mail = "a@x" THEN "Alice" ELSE "Bob"

BlockLines(b) ==
    <<ShaLine(b[1])>>
    \o (IF b[2] # <<>>
        THEN <<AuthorLine(DisplayName(b[2][1])), AuthorMailLine(b[2][1])>>
        ELSE <<>>)
    \o (IF b[3] # <<>> THEN <<AuthorTimeLine(b[3][1])>> ELSE <<>>)
    \o <<OtherLine>>

RECURSIVE RenderLog(_)
RenderLog(blocks) ==
    IF blocks = <<>> THEN <<>>
    ELSE BlockLines(Head(blocks)) \o RenderLog(Tail(blocks))

BlockSeqs(n) == UNION {[1..m -> BlockChoices] : m \in 0..n}

\* the lines of the file at blame_log_path
log == RenderLog(blame_blocks)

LogPath == "f.log"

InitParse ==
    /\ blame_blocks \in BlockSeqs(MaxBlocks)
    /\ pos = 1
    /\ parser = parse_log_start
    /\ parse_done = FALSE
    /\ SelIdle /\ MapIdle /\ GetIdle /\ OwnIdle /\ DecayIdle /\ GenIdle

\* one iteration of the for loop, on a line of the given class
ReadLine(kind) ==
    /\ ~parse_done
    /\ pos <= Len(log)
    /\ log[pos].kind = kind
    /\ parser' = parse_line(parser, log[pos], LogPath)
    /\ pos' = pos + 1
    /\ UNCHANGED <<blame_blocks, parse_done>>
    /\ UNCHANGED <<selVars, mapVars, getVars, ownVars, decayVars, genVars>>

ReadShaLine == ReadLine("sha")
ReadAuthorLine == ReadLine("author")
ReadAuthorTimeLine == ReadLine("author-time")
ReadAuthorMailLine == ReadLine("author-mail")
ReadOtherLine == ReadLine("other")

\* the loop is over: the final append, and return commits
EndOfLog ==
    /\ ~parse_done
    /\ pos > Len(log)
    /\ parser' = end_of_log(parser, LogPath)
    /\ parse_done' = TRUE
    /\ UNCHANGED <<blame_blocks, pos>>
    /\ UNCHANGED <<selVars, mapVars, getVars, ownVars, decayVars, genVars>>

NextParse ==
    \/ ReadShaLine
    \/ ReadAuthorLine
    \/ ReadAuthorTimeLine
    \/ ReadAuthorMailLine
    \/ ReadOtherLine
    \/ EndOfLog

SpecParse == InitParse /\ [][NextParse]_vars

---------------------------------------------------------------------------
(* read_mailmap and use_mailmap applied to bounded mailmap files *)

MailSeqs(n) == UNION {[1..m -> MapEmails] : m \in 0..n}

\* the lines a mailmap file is made of: a comment (which may hold mails), an
\* empty line, and lines of a name followed by 0..MaxMails bracketed mails
MailmapLineChoices ==
    {MailmapLine("#", "", <<"a@x", "b@x">>, <<>>), MailmapLine("newline", "", <<>>, <<>>)}
    \cup {MailmapLine("text", "Alice", ms, <<>>) : ms \in MailSeqs(MaxMails)}

MailmapFiles == UNION {[1..m -> MailmapLineChoices] : m \in 0..MaxMailmapLines}

\* what parse_log files under an email, one distinguishable fragment each
FragmentsUnder(e) ==
    <<Commit(CASE e = "a@x" -> 1 [] e = "b@x" -> 2 [] OTHER -> 3, 86400, LogPath)>>

RawContributions ==
    {d \in UNION {[1..m -> {<<e, FragmentsUnder(e)>> : e \in MapEmails}] : m \in 1..2} :
        IsDict(d)}

InitMailmap ==
    /\ mailmap_lines \in MailmapFiles
    /\ mm = NoOutcome
    /\ contributions \in RawContributions
    /\ mapped = <<>>
    /\ SelIdle /\ ParseIdle /\ GetIdle /\ OwnIdle /\ DecayIdle /\ GenIdle

ReadMailmap ==
    /\ mm = NoOutcome
    /\ mm' = read_mailmap(mailmap_lines)
    /\ UNCHANGED <<mailmap_lines, contributions, mapped>>
    /\ UNCHANGED <<selVars, parseVars, getVars, ownVars, decayVars, genVars>>

\* compute_knowledge_ownership's use of the mapping read_mailmap returned
UseMailmap ==
    /\ mm.status = "ok"
    /\ mapped = <<>>
    /\ mapped' = use_mailmap(contributions, mm.mail_to_mail)
    /\ UNCHANGED <<mailmap_lines, mm, contributions>>
    /\ UNCHANGED <<selVars, parseVars, getVars, ownVars, decayVars, genVars>>

NextMailmap == ReadMailmap \/ UseMailmap

SpecMailmap == InitMailmap /\ [][NextMailmap]_vars

---------------------------------------------------------------------------
(* get_mailmap applied to bounded file systems and author histories *)

HistoryLines == {[name |-> n, email |-> e] : n \in {"Al", "Alice", "#Al"}, e \in Emails}

\* a commit history has at least one commit; the set of its lines is
\* iterated in any order
Histories ==
    {h \in UNION {[1..m -> HistoryLines] : m \in 1..MaxHistory} :
        \A i, j \in DOMAIN h : h[i] = h[j] => i = j}

ExistingMailmaps ==
    {File(<<>>),
     File(<<MailmapLine("text", "Alice", <<"a@x", "b@x">>, <<>>)>>),
     File(<<MailmapLine("text", "Bob", <<"b@x", "c@x">>, <<>>)>>)}

InitGetMailmap ==
    /\ fs \in [Paths -> ExistingMailmaps \cup {NoFile}]
    /\ path_to_mailmap \in Paths
    /\ history \in Histories
    /\ gm = NoOutcome
    /\ SelIdle /\ ParseIdle /\ MapIdle /\ OwnIdle /\ DecayIdle /\ GenIdle

GetMailmap ==
    /\ gm = NoOutcome
    /\ gm' = get_mailmap(fs, history, path_to_mailmap)
    /\ fs' = fs_after_get_mailmap(fs, history, path_to_mailmap)
    /\ UNCHANGED <<path_to_mailmap, history>>
    /\ UNCHANGED <<selVars, parseVars, mapVars, ownVars, decayVars, genVars>>

NextGetMailmap == GetMailmap

SpecGetMailmap == InitGetMailmap /\ [][NextGetMailmap]_vars

---------------------------------------------------------------------------
(* compute_ownership and compute_truck_factor over bounded sets of logs *)

\* the line count of a very large file, whose value is a float too large to
\* absorb a small addend without rounding
BigCount == 16777216

\* a block with a count, a mail and a time of its own
OwnBlock(count, mail, time) == <<count, <<mail>>, <<time>>>>

\* the blame logs of the model: the empty log (an empty file); a log whose
\* only header has count 0; logs of one block by a@x, of two ages, and by
\* b@x; a log of two blocks of equal value by two authors, and one of
\* unequal values; a log of five blocks in which both authors own three
\* lines, one at 172800 and two at 86400, grouped differently; and the log
\* of a very large file
OwnLogLines ==
    {<<>>,
     RenderLog(<< <<0, <<>>, <<>>>> >>),
     RenderLog(<<OwnBlock(1, "a@x", 172800)>>),
     RenderLog(<<OwnBlock(1, "a@x", 86400)>>),
     RenderLog(<<OwnBlock(2, "b@x", 172800)>>),
     RenderLog(<<OwnBlock(1, "b@x", 86400), OwnBlock(1, "a@x", 86400)>>),
     RenderLog(<<OwnBlock(2, "a@x", 86400), OwnBlock(1, "b@x", 172800)>>),
     RenderLog(<<OwnBlock(1, "a@x", 172800), OwnBlock(2, "a@x", 86400),
                 OwnBlock(1, "b@x", 86400), OwnBlock(1, "b@x", 172800),
                 OwnBlock(1, "b@x", 86400)>>),
     RenderLog(<<OwnBlock(BigCount, "a@x", 172800)>>)}

BlamePath(i) ==
    CASE i = 1 -> "1.log" [] i = 2 -> "2.log" [] i = 3 -> "3.log" [] i = 4 -> "4.log"
      [] OTHER -> "n.log"

\* a mailmap that makes b@x an alias of a@x
AliasMailmap == File(<<MailmapLine("text", "Alice", <<"a@x", "b@x">>, <<>>)>>)

\* the mailmap files the call finds and its path_to_mailmap: no mailmap at
\* all; one in the repository only; one at mm.txt; none, with
\* path_to_mailmap the repository's own .mailmap
OwnMailmapSetups ==
    {[fs |-> [p \in Paths |-> NoFile], path |-> "mm.txt"],
     [fs |-> [p \in Paths |-> IF p = RepoMailmapPath THEN AliasMailmap ELSE NoFile],
      path |-> "mm.txt"],
     [fs |-> [p \in Paths |-> IF p = "mm.txt" THEN AliasMailmap ELSE NoFile],
      path |-> "mm.txt"],
     [fs |-> [p \in Paths |-> NoFile], path |-> RepoMailmapPath]}

\* the commit history of the repository the logs come from: a set of two
\* author lines, iterated in either order
OwnHistories ==
    {<<[name |-> "Alice", email |-> "a@x"], [name |-> "Bob", email |-> "b@x"]>>,
     <<[name |-> "Bob", email |-> "b@x"], [name |-> "Alice", email |-> "a@x"]>>}

OwnFunctions == {"compute_ownership", "compute_knowlede_authorship"}

InitOwnership ==
    /\ blame_logs \in UNION {{[i \in 1..m |-> [path |-> BlamePath(i), lines |-> ls[i]]] :
                                ls \in [1..m -> OwnLogLines]} : m \in 0..MaxFiles}
    /\ \E setup \in OwnMailmapSetups :
           /\ fs = setup.fs
           /\ path_to_mailmap = setup.path
    /\ history \in OwnHistories
    /\ gm = NoOutcome
    /\ own_fn \in OwnFunctions
    /\ mail_map = <<>>
    /\ next_file = 1
    /\ authored_files = <<>>
    /\ knowledge_base = <<>>
    /\ total_files = 0
    /\ total_knowledge_base = FloatZero
    /\ own_pc = "start"
    /\ SelIdle /\ ParseIdle /\ MapIdle /\ DecayIdle /\ GenIdle

\* mail_to_mail, _ = MM.get_mailmap(path_to_local_repo, path_to_mailmap),
\* the first call of both functions: it may write the naive mailmap, and
\* its exception ends the function before the loop
CallGetMailmap ==
    /\ own_pc = "start"
    /\ gm' = get_mailmap(fs, history, path_to_mailmap)
    /\ fs' = fs_after_get_mailmap(fs, history, path_to_mailmap)
    /\ IF gm'.status = "ok"
       THEN mail_map' = gm'.mail_to_mail /\ own_pc' = "folding"
       ELSE mail_map' = mail_map /\ own_pc' = "raised"
    /\ UNCHANGED <<path_to_mailmap, history>>
    /\ UNCHANGED <<blame_logs, next_file, authored_files, knowledge_base, total_files,
                   total_knowledge_base, own_fn>>
    /\ UNCHANGED <<selVars, parseVars, mapVars, decayVars, genVars>>

\* one iteration of the for loop of compute_knowlede_authorship
FoldFileKnowledge ==
    /\ own_fn = "compute_knowlede_authorship"
    /\ own_pc = "folding"
    /\ next_file <= Len(blame_logs)
    /\ knowledge_base' =
           map_add_or_increment_knowledge(
               knowledge_base,
               compute_knowledge_ownership(blame_logs[next_file], mail_map).contributions)
    /\ next_file' = next_file + 1
    /\ UNCHANGED <<blame_logs, mail_map, authored_files, total_files,
                   total_knowledge_base, own_fn, own_pc>>
    /\ UNCHANGED <<selVars, parseVars, mapVars, getVars, decayVars, genVars>>

\* compute_knowlede_authorship returns knowledge_base
ReturnKnowledgeBase ==
    /\ own_fn = "compute_knowlede_authorship"
    /\ own_pc = "folding"
    /\ next_file > Len(blame_logs)
    /\ own_pc' = "returned"
    /\ UNCHANGED <<blame_logs, mail_map, next_file, authored_files, knowledge_base,
                   total_files, total_knowledge_base, own_fn>>
    /\ UNCHANGED <<selVars, parseVars, mapVars, getVars, decayVars, genVars>>

\* one iteration of the for loop of compute_ownership
FoldFile ==
    /\ own_fn = "compute_ownership"
    /\ own_pc = "folding"
    /\ next_file <= Len(blame_logs)
    /\ LET author_contributions ==
               compute_knowledge_ownership(blame_logs[next_file], mail_map)
       IN /\ authored_files' =
                 map_add_or_increment_authorship(authored_files, author_contributions.author)
          /\ knowledge_base' =
                 map_add_or_increment_knowledge(knowledge_base,
                                                author_contributions.contributions)
    /\ next_file' = next_file + 1
    /\ UNCHANGED <<blame_logs, mail_map, total_files, total_knowledge_base, own_fn, own_pc>>
    /\ UNCHANGED <<selVars, parseVars, mapVars, getVars, decayVars, genVars>>

\* compute_ownership has returned: run hands both tallies to
\* compute_truck_factor, which calls the two selectors in turn with the
\* default critical_loss; the second is not reached when the first raises
ComputeTruckFactor ==
    /\ own_fn = "compute_ownership"
    /\ own_pc = "folding"
    /\ next_file > Len(blame_logs)
    /\ total_files' = SumValues(authored_files)
    /\ total_knowledge_base' = float_sum(knowledge_base)
    /\ file_tf' = compute_truck_factor_from_file_authorship(
                      total_files', authored_files, DefaultCriticalLoss)
    /\ knowledge_tf' =
           IF file_tf'.status = "ok"
           THEN float_compute_truck_factor_from_knowledge_base(
                    total_knowledge_base', knowledge_base)
           ELSE NotCalled
    /\ own_pc' = "done"
    /\ UNCHANGED <<blame_logs, mail_map, next_file, authored_files, knowledge_base, own_fn>>
    /\ UNCHANGED <<knowledge, tally, critical_loss>>
    /\ UNCHANGED <<parseVars, mapVars, getVars, decayVars, genVars>>

NextOwnership ==
    \/ CallGetMailmap
    \/ FoldFile
    \/ ComputeTruckFactor
    \/ FoldFileKnowledge
    \/ ReturnKnowledgeBase

SpecOwnership == InitOwnership /\ [][NextOwnership]_vars

---------------------------------------------------------------------------
(* compute_lines_value applied to commits dated before and after the
   reference instant *)

HalfDay == 43200

\* author-time values from the epoch on, half a day apart, on both sides of
\* INITIAL_TIMESTAMP
DecayDates == {h * HalfDay : h \in 0..MaxHalfDays}

DecayPath == "f.log"

InitDecay ==
    /\ decay_commit \in {Commit(n, d, DecayPath) : n \in 0..MaxLines, d \in DecayDates}
    /\ lines_value = NoLinesValue
    /\ SelIdle /\ ParseIdle /\ MapIdle /\ GetIdle /\ OwnIdle /\ GenIdle

ComputeLinesValue ==
    /\ lines_value = NoLinesValue
    /\ lines_value' = compute_lines_value_call(decay_commit)
    /\ UNCHANGED decay_commit
    /\ UNCHANGED <<selVars, parseVars, mapVars, getVars, ownVars, genVars>>

NextDecay == ComputeLinesValue

SpecDecay == InitDecay /\ [][NextDecay]_vars

---------------------------------------------------------------------------
(* generate_blame_logs: the main thread and its worker threads, then the
   aggregation of run *)

TrackedNames == {"a.py", "docs/b.md", "src/Makefile", "c.py"}

\* ls-tree lists at least one path; list(files) lists the set in any order
TrackedLists ==
    {l \in UNION {[1..m -> TrackedNames] : m \in 1..MaxTracked} :
        \A i, j \in DOMAIN l : l[i] = l[j] => i = j}

IncludedChoices == {{"py"}, {"py", "md"}}

InitGenerate ==
    /\ tracked_files \in TrackedLists
    /\ included_files \in IncludedChoices
    /\ cpu_count \in 1..MaxCpu
    /\ threads = [k \in DOMAIN file_chunks(tracked_files, cpu_count) |-> Thread("new", 0, <<>>)]
    /\ next_thread = 1
    /\ lock = 0
    /\ all_logs = <<>>
    /\ omitted_extenstions = {}
    /\ returned_logs = <<>>
    /\ gen_pc = "start"
    /\ SelIdle /\ ParseIdle /\ MapIdle /\ GetIdle /\ OwnIdle /\ DecayIdle

GenFrame == UNCHANGED <<selVars, parseVars, mapVars, getVars, ownVars, decayVars>>

\* for thread in threads: thread.start(); after the last one the main
\* thread goes on to the joins
StartThread ==
    /\ gen_pc = "start"
    /\ threads' = [threads EXCEPT ![next_thread].pc = "running"]
    /\ IF next_thread < Len(threads)
       THEN next_thread' = next_thread + 1 /\ gen_pc' = gen_pc
       ELSE next_thread' = 1 /\ gen_pc' = "join"
    /\ UNCHANGED <<tracked_files, included_files, cpu_count, lock, all_logs,
                   omitted_extenstions, returned_logs>>
    /\ GenFrame

\* one iteration of the for loop of process_list in thread w: the path
\* process_file returns is appended to paths; an exception of process_file
\* leaves process_list, and the thread ends without having called add_logs
ProcessFile(w) ==
    /\ threads[w].pc = "running"
    /\ LET chunk == file_chunks(tracked_files, cpu_count)[w]
       IN /\ threads[w].done < Len(chunk)
          /\ LET file == chunk[threads[w].done + 1]
             IN \E path \in process_file(file, included_files) :
                    /\ threads' = IF path = Raises
                                  THEN [threads EXCEPT ![w].pc = "raised"]
                                  ELSE [threads EXCEPT ![w].done = @ + 1,
                                                       ![w].paths = Append(@, path)]
                    /\ omitted_extenstions' =
                           IF path = None
                           THEN omitted_extenstions \cup {file_extension(file)}
                           ELSE omitted_extenstions
    /\ UNCHANGED <<tracked_files, included_files, cpu_count, next_thread, lock,
                   all_logs, returned_logs, gen_pc>>
    /\ GenFrame

\* add_logs: with self._lock (the thread waits while the lock is held)
AcquireLock(w) ==
    /\ threads[w].pc = "running"
    /\ threads[w].done = Len(file_chunks(tracked_files, cpu_count)[w])
    /\ lock = 0
    /\ lock' = w
    /\ threads' = [threads EXCEPT ![w].pc = "locked"]
    /\ UNCHANGED <<tracked_files, included_files, cpu_count, next_thread, all_logs,
                   omitted_extenstions, returned_logs, gen_pc>>
    /\ GenFrame

\* add_logs: self._all_logs.extend(logs)
ExtendLogs(w) ==
    /\ threads[w].pc = "locked"
    /\ all_logs' = all_logs \o threads[w].paths
    /\ threads' = [threads EXCEPT ![w].pc = "extended"]
    /\ UNCHANGED <<tracked_files, included_files, cpu_count, next_thread, lock,
                   omitted_extenstions, returned_logs, gen_pc>>
    /\ GenFrame

\* add_logs: the with block is left, process_list returns
ReleaseLock(w) ==
    /\ threads[w].pc = "extended"
    /\ lock' = 0
    /\ threads' = [threads EXCEPT ![w].pc = "finished"]
    /\ UNCHANGED <<tracked_files, included_files, cpu_count, next_thread, all_logs,
                   omitted_extenstions, returned_logs, gen_pc>>
    /\ GenFrame

\* for thread in threads: thread.join()
JoinThread ==
    /\ gen_pc = "join"
    /\ next_thread <= Len(threads)
    /\ join_returns(threads[next_thread])
    /\ next_thread' = next_thread + 1
    /\ UNCHANGED <<tracked_files, included_files, cpu_count, threads, lock, all_logs,
                   omitted_extenstions, returned_logs, gen_pc>>
    /\ GenFrame

\* return path_to_blame_logs.get_logs(): a copy taken under the lock
GetLogs ==
    /\ gen_pc = "join"
    /\ next_thread > Len(threads)
    /\ lock = 0
    /\ returned_logs' = all_logs
    /\ gen_pc' = "returned"
    /\ UNCHANGED <<tracked_files, included_files, cpu_count, threads, next_thread, lock,
                   all_logs, omitted_extenstions>>
    /\ GenFrame

\* run: generate_blame_logs has returned, the compute-truck-factor part
\* begins
StartAggregation ==
    /\ gen_pc = "returned"
    /\ gen_pc' = "aggregating"
    /\ UNCHANGED <<tracked_files, included_files, cpu_count, threads, next_thread, lock,
                   all_logs, omitted_extenstions, returned_logs>>
    /\ GenFrame

NextGenerate ==
    \/ StartThread
    \/ \E w \in DOMAIN threads : ProcessFile(w)
    \/ \E w \in DOMAIN threads : AcquireLock(w)
    \/ \E w \in DOMAIN threads : ExtendLogs(w)
    \/ \E w \in DOMAIN threads : ReleaseLock(w)
    \/ JoinThread
    \/ GetLogs
    \/ StartAggregation

SpecGenerate == InitGenerate /\ [][NextGenerate]_vars

---------------------------------------------------------------------------
(* Properties of the selectors, under SpecSelect *)

SortedTally == sorted_by_value_reverse(tally)

\* the <<identity, value>> pairs of a truck-factor list
Entries(tf) == [i \in DOMAIN tf |-> <<tf[i][1], tf[i][2]>>]

SumPrefix(s, k) == SumValues(SubSeq(s, 1, k))

IsPrefixOf(r, s) == Len(r) <= Len(s) /\ r = SubSeq(s, 1, Len(r))

\* s holds the items of d, by value descending
IsDescendingSortOf(s, d) ==
    /\ Len(s) = Len(d)
    /\ Items(s) = Items(d)
    /\ \A i, j \in DOMAIN s : i < j => s[i][2] >= s[j][2]

\* (total - sum of the first k values) / total < critical_loss, resp. <=
RemainingBelow(k) == (knowledge - SumPrefix(SortedTally, k)) * 100 < critical_loss * knowledge
RemainingAtMost(k) == (knowledge - SumPrefix(SortedTally, k)) * 100 <= critical_loss * knowledge

\* C1, file-authorship half: the result is the shortest non-empty prefix of
\* the sorted tally after which remaining / total < critical_loss, or the
\* whole sorted tally when no prefix gets there.
C1_FileShortestPrefix ==
    LET r == Entries(file_tf.tf)
        n == Len(r)
    IN /\ file_tf.status = "ok"
       /\ IsPrefixOf(r, SortedTally)
       /\ n >= 1
       /\ \A k \in 1..(n - 1) : ~RemainingBelow(k)
       /\ RemainingBelow(n) \/ n = Len(SortedTally)
       /\ \A i \in DOMAIN file_tf.tf : file_tf.tf[i][3] = knowledge

\* C1, knowledge half: the same with <= in place of <.
C1_KnowledgeShortestPrefix ==
    LET r == Entries(knowledge_tf.tf)
        n == Len(r)
    IN /\ knowledge_tf.status = "ok"
       /\ IsPrefixOf(r, SortedTally)
       /\ n >= 1
       /\ \A k \in 1..(n - 1) : ~RemainingAtMost(k)
       /\ RemainingAtMost(n) \/ n = Len(SortedTally)
       /\ \A i \in DOMAIN knowledge_tf.tf : knowledge_tf.tf[i][3] = knowledge

\* C1: for a non-empty tally and a total > 0, each selector returns the
\* shortest prefix (the crossing entry included) of the tally sorted by
\* value descending that brings remaining / total below critical_loss
\* (file authorship: <, knowledge: <=), and the whole sorted tally when no
\* prefix does.
C1_ShortestPrefix ==
    (tally # <<>> /\ knowledge > 0) =>
        /\ IsDescendingSortOf(SortedTally, tally)
        /\ file_tf # NotCalled => C1_FileShortestPrefix
        /\ knowledge_tf # NotCalled => C1_KnowledgeShortestPrefix

\* both selectors have run on a three-entry tally, the knowledge variant
\* stopped at remaining / total = critical_loss and the file variant one
\* entry later
C1_Witness ==
    /\ knowledge > 0 /\ Len(tally) = 3
    /\ file_tf.status = "ok" /\ knowledge_tf.status = "ok"
    /\ Len(knowledge_tf.tf) = 1 /\ Len(file_tf.tf) = 2
    /\ (knowledge - SumPrefix(SortedTally, 1)) * 100 = critical_loss * knowledge

\* the selector is used as compute_truck_factor uses it: the total is the
\* sum of the tally's values
TotalIsSum == tally # <<>> /\ knowledge = SumValues(tally) /\ knowledge > 0

\* the cumulative share of the first k sorted entries exceeds, resp.
\* reaches, 1 - critical_loss
ShareExceeds(k) == SumPrefix(SortedTally, k) * 100 > (100 - critical_loss) * knowledge
ShareReaches(k) == SumPrefix(SortedTally, k) * 100 >= (100 - critical_loss) * knowledge

\* C2 as stated: for both metrics the list is the minimal prefix of the
\* sorted tally whose cumulative share is > 1 - critical_loss.
C2_Original ==
    TotalIsSum =>
        /\ file_tf # NotCalled =>
              /\ IsPrefixOf(Entries(file_tf.tf), SortedTally)
              /\ ShareExceeds(Len(file_tf.tf))
              /\ \A k \in 0..(Len(file_tf.tf) - 1) : ~ShareExceeds(k)
        /\ knowledge_tf # NotCalled =>
              /\ IsPrefixOf(Entries(knowledge_tf.tf), SortedTally)
              /\ ShareExceeds(Len(knowledge_tf.tf))
              /\ \A k \in 0..(Len(knowledge_tf.tf) - 1) : ~ShareExceeds(k)

\* C2, amended: with the total the sum of the tally, the file-ownership list
\* is the minimal prefix whose share is > 1 - critical_loss provided
\* critical_loss > 0, and the knowledge list is the minimal non-empty
\* prefix whose share is >= 1 - critical_loss.
C2_MinimalShare ==
    TotalIsSum =>
        /\ (file_tf # NotCalled /\ critical_loss > 0) =>
              /\ IsPrefixOf(Entries(file_tf.tf), SortedTally)
              /\ ShareExceeds(Len(file_tf.tf))
              /\ \A k \in 0..(Len(file_tf.tf) - 1) : ~ShareExceeds(k)
        /\ knowledge_tf # NotCalled =>
              /\ IsPrefixOf(Entries(knowledge_tf.tf), SortedTally)
              /\ Len(knowledge_tf.tf) >= 1
              /\ ShareReaches(Len(knowledge_tf.tf))
              /\ \A k \in 1..(Len(knowledge_tf.tf) - 1) : ~ShareReaches(k)

\* the knowledge selector stopped with a share of exactly 1 - critical_loss
\* while the file selector, on the same tally, went one entry further
C2_Witness ==
    /\ TotalIsSum
    /\ file_tf.status = "ok" /\ knowledge_tf.status = "ok"
    /\ ShareReaches(Len(knowledge_tf.tf)) /\ ~ShareExceeds(Len(knowledge_tf.tf))
    /\ Len(file_tf.tf) = Len(knowledge_tf.tf) + 1
    /\ critical_loss = DefaultCriticalLoss

---------------------------------------------------------------------------
(* Properties of parse_log, under SpecParse *)

\* blocks that each carry a positive count and their own author-mail and
\* author-time lines
FullBlocks == {b \in BlockChoices : b[1] > 0 /\ b[2] # <<>> /\ b[3] # <<>>}

AllBlocksFull == blame_blocks # <<>> /\ \A i \in DOMAIN blame_blocks : blame_blocks[i] \in FullBlocks

RECURSIVE NumFragments(_)
NumFragments(commits) ==
    IF commits = <<>> THEN 0 ELSE Len(commits[1][2]) + NumFragments(Tail(commits))

\* the fragments {lines: c_i, date: t_i} of the blocks whose mail is e, in
\* header order
RECURSIVE FragmentsOf(_, _)
FragmentsOf(blocks, e) ==
    IF blocks = <<>> THEN <<>>
    ELSE (IF blocks[1][2][1] = e
          THEN <<Commit(blocks[1][1], blocks[1][3][1], LogPath)>>
          ELSE <<>>) \o FragmentsOf(Tail(blocks), e)

\* C3: for a log of n >= 1 blocks, each a header with count c_i > 0 followed
\* by its own author-mail e_i and author-time t_i, parse_log returns exactly
\* n fragments, the i-th being {lines: c_i, date: t_i} filed under e_i, in
\* header order under each email.
C3_BlocksPairedWithOwnMetadata ==
    (parse_done /\ AllBlocksFull) =>
        /\ NumFragments(parser.commits) = Len(blame_blocks)
        /\ Keys(parser.commits) = {blame_blocks[i][2][1] : i \in DOMAIN blame_blocks}
        /\ \A e \in Keys(parser.commits) :
               DictGet(parser.commits, e) = FragmentsOf(blame_blocks, e)

\* parse_log has returned from a log of two full blocks that differ in
\* count, email and time
C3_Witness ==
    /\ parse_done
    /\ AllBlocksFull
    /\ Len(blame_blocks) = 2
    /\ blame_blocks[1][1] # blame_blocks[2][1]
    /\ blame_blocks[1][2] # blame_blocks[2][2]
    /\ blame_blocks[1][3] # blame_blocks[2][3]
    /\ NumFragments(parser.commits) = 2

\* one fragment was appended, under the email current before the step,
\* built from the count and timestamp current before the step
Emitted(before, after) ==
    /\ NumFragments(after.commits) = NumFragments(before.commits) + 1
    /\ DictHas(after.commits, before.authorEmail)
    /\ LET l == DictGet(after.commits, before.authorEmail)
       IN l[Len(l)] = Commit(before.prev, before.timestamp, LogPath)

\* C4: the step that ends the input emits exactly one fragment, built from
\* the pending count, the current timestamp and the current email, whatever
\* the count (0 included, and for an input with no lines); a header line
\* emits that fragment when the pending count is > 0 and nothing otherwise.
C4_FinalFlushUnconditional ==
    [][ /\ (~parse_done /\ parse_done') => Emitted(parser, parser')
        /\ (~parse_done /\ pos <= Len(log) /\ log[pos].kind = "sha") =>
              IF parser.prev > 0
              THEN Emitted(parser, parser')
              ELSE parser'.commits = parser.commits ]_vars

\* parse_log has returned from an input with no lines: one fragment of 0
\* lines under the empty email
C4_Witness ==
    /\ parse_done
    /\ log = <<>>
    /\ parser.commits = << <<"", <<Commit(0, 0, LogPath)>> >> >>

---------------------------------------------------------------------------
(* Properties of read_mailmap and use_mailmap, under SpecMailmap *)

\* the lines read_mailmap does not skip
IsEntry(line) == line.lead = "text"

\* the lines of the file that list e as an alias (a bracketed mail after
\* the first)
AliasLines(e) ==
    {i \in DOMAIN mailmap_lines :
        /\ IsEntry(mailmap_lines[i])
        /\ \E k \in 2..Len(mailmap_lines[i].mails) : mailmap_lines[i].mails[k] = e}

Max(S) == CHOOSE x \in S : \A y \in S : y <= x

\* identity resolution as the callers use the mapping: an absent key maps
\* to itself
Resolve(e) == IF DictHas(mm.mail_to_mail, e) THEN DictGet(mm.mail_to_mail, e) ELSE e

\* the fragments of the raw emails that resolve to k, in the order of the
\* raw dict
RECURSIVE FragmentsResolvingTo(_, _)
FragmentsResolvingTo(contribs, k) ==
    IF contribs = <<>> THEN <<>>
    ELSE (IF Resolve(contribs[1][1]) = k THEN contribs[1][2] ELSE <<>>)
         \o FragmentsResolvingTo(Tail(contribs), k)

\* use_mailmap files the fragments of every raw email under the email it
\* resolves to, and under nothing else
UseMailmapFollowsMapping ==
    mapped # <<>> =>
        /\ Keys(mapped) = {Resolve(e) : e \in Keys(contributions)}
        /\ \A k \in Keys(mapped) :
               DictGet(mapped, k) = FragmentsResolvingTo(contributions, k)

\* C5 as stated: read_mailmap maps every alias email of a line to the first
\* email of that line, and use_mailmap files a raw email under that
\* canonical email when it is an alias key and under itself when it is not.
C5_Original ==
    mm.status = "ok" =>
        /\ \A i \in DOMAIN mailmap_lines :
               IsEntry(mailmap_lines[i]) =>
                   \A k \in 2..Len(mailmap_lines[i].mails) :
                       /\ DictHas(mm.mail_to_mail, mailmap_lines[i].mails[k])
                       /\ DictGet(mm.mail_to_mail, mailmap_lines[i].mails[k])
                              = mailmap_lines[i].mails[1]
        /\ UseMailmapFollowsMapping

\* C5, amended: the keys of the mapping read_mailmap returns are the alias
\* emails of the file's entry lines, each mapped to the first email of the
\* LAST line that lists it as an alias; use_mailmap files the fragments of a
\* raw email under mail_to_mail[raw] when raw is a key and under raw itself
\* when it is not, without error.
C5_ResolutionFollowsMailmap ==
    mm.status = "ok" =>
        /\ Keys(mm.mail_to_mail) = {e \in MapEmails : AliasLines(e) # {}}
        /\ \A e \in Keys(mm.mail_to_mail) :
               DictGet(mm.mail_to_mail, e) = mailmap_lines[Max(AliasLines(e))].mails[1]
        /\ UseMailmapFollowsMapping

\* use_mailmap has merged an alias into its canonical email and left an
\* unlisted email under itself
C5_Witness ==
    /\ mm.status = "ok"
    /\ Keys(mm.mail_to_mail) = {"b@x"}
    /\ DictGet(mm.mail_to_mail, "b@x") = "a@x"
    /\ Keys(contributions) = {"b@x", "c@x"}
    /\ Keys(mapped) = {"a@x", "c@x"}

\* the file without the lines that hold no bracketed mail
WellFormedLines(lines) ==
    SelectSeq(lines, LAMBDA l : ~(IsEntry(l) /\ l.mails = <<>>))

\* C10: a line with no angle-bracketed email is skipped without raising:
\* read_mailmap returns the mappings built from the other lines.
C10_MalformedLineSkipped ==
    mm # NoOutcome =>
        /\ mm.status = "ok"
        /\ mm = read_mailmap(WellFormedLines(mailmap_lines))

---------------------------------------------------------------------------
(* Properties of get_mailmap, under SpecGetMailmap *)

\* C9: when no file exists at path_to_mailmap, get_mailmap does not fail,
\* writes the naive mailmap at that path and returns the mapping parsed
\* from the file it has just written.
C9_AbsentMailmapBootstrapped ==
    [][ (gm = NoOutcome /\ gm' # NoOutcome /\ ~fs[path_to_mailmap].exists) =>
            /\ gm'.status = "ok"
            /\ fs'[path_to_mailmap] = File(format_author_output(history))
            /\ gm' = read_mailmap(fs'[path_to_mailmap].lines) ]_vars

---------------------------------------------------------------------------
(* Properties of compute_ownership and compute_truck_factor, under
   SpecOwnership *)

Orderings(n) == {f \in [1..n -> 1..n] : \A i, j \in 1..n : f[i] = f[j] => i = j}

Permuted(logs, f) == [i \in DOMAIN logs |-> logs[f[i]]]

\* the loop has folded every log and the function is about to return its
\* tallies (no later step changes them)
FoldingOver == own_pc = "folding" /\ next_file > Len(blame_logs)

\* the per-file result of each log, with the mapping get_mailmap returned
FileResults == [i \in DOMAIN blame_logs |-> compute_knowledge_ownership(blame_logs[i], mail_map)]

\* the tallies the loop builds when it meets these per-file results in
\* this order
RECURSIVE FoldOf(_, _, _)
FoldOf(results, authored, base) ==
    IF results = <<>> THEN [authored_files |-> authored, knowledge_base |-> base]
    ELSE FoldOf(Tail(results),
                map_add_or_increment_authorship(authored, Head(results).author),
                map_add_or_increment_knowledge(base, Head(results).contributions))

\* |x - y| <= 1e-9: the largest whole number of 2^-55 not above 1e-9 is
\* 36028797
WithinAbsoluteTolerance(x, y) ==
    exact_le(exact_abs(exact_sub(x, y)), <<0, 0, 36028797>>)

\* |x - y| <= 1e-9 * max(|x|, |y|), for floats below 2^34
WithinRelativeTolerance(x, y) ==
    LET diff == exact_abs(exact_sub(x, y))
        larger == IF exact_le(exact_abs(x), exact_abs(y)) THEN exact_abs(y) ELSE exact_abs(x)
    IN /\ diff[1] = 0
       /\ exact_le(exact_times(1000000000, diff), larger)

\* C6 as stated: folding any permutation of the same per-file results gives
\* the same keys in both tallies, the same count per key in the authorship
\* tally, and per key a knowledge value within 1e-9 of the one this order
\* gave.
C6_Original ==
    (FoldingOver /\ own_fn = "compute_ownership") =>
        LET results == FileResults
        IN \A f \in Orderings(Len(results)) :
               LET other == FoldOf(Permuted(results, f), <<>>, <<>>)
               IN /\ Keys(other.knowledge_base) = Keys(knowledge_base)
                  /\ \A k \in Keys(knowledge_base) :
                         WithinAbsoluteTolerance(DictGet(other.knowledge_base, k),
                                                 DictGet(knowledge_base, k))
                  /\ Items(other.authored_files) = Items(authored_files)

\* C6: the two tallies do not depend on the order of the blame logs, up to
\* the rounding of the float sums: folding any permutation of the same
\* per-file results gives the same keys in both tallies, the same count per
\* key in the authorship tally, and per key a knowledge value within 1e-9
\* of the one this order gave relative to the value itself
\* (|x - y| <= 1e-9 * max(|x|, |y|)).
C6_FoldOrderIrrelevant ==
    (FoldingOver /\ own_fn = "compute_ownership") =>
        LET results == FileResults
        IN \A f \in Orderings(Len(results)) :
               LET other == FoldOf(Permuted(results, f), <<>>, <<>>)
               IN /\ Keys(other.knowledge_base) = Keys(knowledge_base)
                  /\ \A k \in Keys(knowledge_base) :
                         WithinRelativeTolerance(DictGet(other.knowledge_base, k),
                                                 DictGet(knowledge_base, k))
                  /\ Items(other.authored_files) = Items(authored_files)

\* three logs have been folded, the same identity gained knowledge from
\* each of them, and folding them in another order gives that identity a
\* knowledge value that differs from this one, by less than 1e-9
C6_Witness ==
    /\ FoldingOver
    /\ own_fn = "compute_ownership"
    /\ Len(blame_logs) = 3
    /\ LET results == FileResults
       IN \E k \in Keys(knowledge_base) :
              /\ \A i \in 1..3 : \E j \in DOMAIN results[i].contributions :
                                     results[i].contributions[j][1] = k
              /\ \E f \in Orderings(3) :
                     LET other == DictGet(FoldOf(Permuted(results, f), <<>>, <<>>).knowledge_base, k)
                     IN /\ other # DictGet(knowledge_base, k)
                        /\ WithinAbsoluteTolerance(other, DictGet(knowledge_base, k))

\* a blame log whose fragments are all of 0 lines under the empty email: an
\* empty log, or one with only unattributed zero-length content
YieldsNoContribution(blame_log) ==
    LET commits == parse_log(blame_log.lines, blame_log.path)
    IN \A i \in DOMAIN commits :
           /\ commits[i][1] = ""
           /\ \A k \in DOMAIN commits[i][2] : commits[i][2][k].lines = 0

\* C7: folding a blame log that yields no contribution leaves both tallies
\* unchanged: no key added to the knowledge tally, no count added or
\* incremented in the authorship tally.
C7_EmptyLogLeavesTallies ==
    [][ (/\ own_pc = "folding"
         /\ own_fn = "compute_ownership"
         /\ next_file <= Len(blame_logs)
         /\ next_file' = next_file + 1
         /\ YieldsNoContribution(blame_logs[next_file])) =>
            /\ knowledge_base' = knowledge_base
            /\ authored_files' = authored_files ]_vars

\* C8: on every path through compute_truck_factor each selector is called
\* only with a total > 0, and no division by zero is raised.
C8_SelectorTotalPositive ==
    own_pc = "done" =>
        /\ file_tf # NotCalled => total_files > 0
        /\ knowledge_tf # NotCalled => exact_lt(FloatZero, total_knowledge_base)
        /\ file_tf.status # "ZeroDivisionError"
        /\ knowledge_tf.status # "ZeroDivisionError"

---------------------------------------------------------------------------
(* Properties of compute_lines_value, under SpecDecay *)

\* 1.0: 2^55 of the unit of the floats
FloatOne == <<0, 33554432, 0>>

\* whole days from the fragment date to the reference instant, never below 0
ageDays(commit) ==
    IF commit.date > INITIAL_TIMESTAMP THEN 0
    ELSE DaysBetween(INITIAL_TIMESTAMP, commit.date)

\* C11: compute_lines_value uses ageDays = max(0, whole days from the
\* fragment date to the reference instant): for a fragment dated after the
\* reference instant the age is 0, and for every fragment, whatever its
\* date, the call returns a value with 0 <= value <= fragment.lines.
C11_DecayBound ==
    lines_value # NoLinesValue =>
        /\ lines_value.status = "ok"
        /\ lines_value.im = FloatZero
        /\ lines_value.re =
               float_mul_int(decay_commit.lines,
                             knowledge_retention_function(ageDays(decay_commit)))
        /\ exact_le(FloatZero, lines_value.re)
        /\ exact_le(lines_value.re, exact_times(decay_commit.lines, FloatOne))

---------------------------------------------------------------------------
(* Properties of the naive mailmap, under SpecGetMailmap *)

HistoryEmails == {history[i].email : i \in DOMAIN history}

NamesOf(e) == {history[i].name : i \in {j \in DOMAIN history : history[j].email = e}}

\* the names a line carries: the one before the mail, then the others
NamesOnLine(line) == <<line.name>> \o line.rest

LongestFirst(names) ==
    \A i, j \in DOMAIN names : i < j => Len(names[i]) >= Len(names[j])

\* exactly one line per distinct email of the history, each carrying that
\* email alone and all of its display names, longest first
OneLinePerEmail(lines) ==
    /\ Len(lines) = Cardinality(HistoryEmails)
    /\ \A e \in HistoryEmails :
           \E i \in DOMAIN lines :
               /\ lines[i].mails = <<e>>
               /\ {NamesOnLine(lines[i])[k] : k \in DOMAIN NamesOnLine(lines[i])} = NamesOf(e)
               /\ Len(NamesOnLine(lines[i])) = Cardinality(NamesOf(e))
               /\ LongestFirst(NamesOnLine(lines[i]))

\* read_mailmap returns from these lines with no alias, so that every
\* email of the history resolves to itself
NoEmailMerged(lines) ==
    /\ read_mailmap(lines).status = "ok"
    /\ read_mailmap(lines).mail_to_mail = <<>>
    /\ \A e \in HistoryEmails : mapped_mail(e, read_mailmap(lines).mail_to_mail) = e

\* C12: when get_mailmap finds no file at path_to_mailmap, the file it
\* creates there holds exactly one line per distinct email of the commit
\* history (carrying that email's display names, longest first), and
\* read_mailmap applied to those lines yields an empty alias mapping: no
\* two emails are merged, every raw email resolves to itself.
C12_NaiveBootstrapMergesNothing ==
    [][ (gm = NoOutcome /\ gm' # NoOutcome /\ ~fs[path_to_mailmap].exists) =>
            /\ fs'[path_to_mailmap].exists
            /\ OneLinePerEmail(fs'[path_to_mailmap].lines)
            /\ NoEmailMerged(fs'[path_to_mailmap].lines)
            /\ (path_to_mailmap = RepoMailmapPath =>
                    gm' = read_mailmap(fs'[path_to_mailmap].lines)) ]_vars

\* get_mailmap created repo/.mailmap from a history of two emails, one of
\* them under two names, and read it back: no alias
C12_Witness ==
    /\ gm.status = "ok"
    /\ path_to_mailmap = RepoMailmapPath
    /\ fs[path_to_mailmap].lines = format_author_output(history)
    /\ Cardinality(HistoryEmails) = 2
    /\ Len(fs[path_to_mailmap].lines) = 2
    /\ \E i \in DOMAIN fs[path_to_mailmap].lines : fs[path_to_mailmap].lines[i].rest # <<>>
    /\ gm.mail_to_mail = <<>>

---------------------------------------------------------------------------
(* Properties of compute_author, under SpecOwnership *)

\* the fragments of the file the fold is at, per raw email, the emails in
\* the order of their first fragment
FoldedFragments == parse_log(blame_logs[next_file].lines, blame_logs[next_file].path)

\* the canonical identity of a raw email
IdentityOf(raw) ==
    IF DictHas(mail_map, raw) THEN DictGet(mail_map, raw) ELSE raw

FileIdentities(frags) == {IdentityOf(frags[i][1]) : i \in DOMAIN frags}

\* the fragments that resolve to c, in the order of their emission after
\* resolution: raw email by raw email, each in the order of its fragments
RECURSIVE FragmentsOfIdentity(_, _)
FragmentsOfIdentity(frags, c) ==
    IF frags = <<>> THEN <<>>
    ELSE (IF IdentityOf(frags[1][1]) = c THEN frags[1][2] ELSE <<>>)
         \o FragmentsOfIdentity(Tail(frags), c)

\* the decayed value of one fragment: its line count times the retention
\* at its age, as one float
DecayedValue(fragment) ==
    float_round(exact_times(
        fragment.lines,
        knowledge_retention_function((INITIAL_TIMESTAMP - fragment.date) \div SecondsPerDay)))

\* the float sum of the decayed values of a list of fragments, each added
\* in turn to the sum so far
RECURSIVE FloatSumOf(_)
FloatSumOf(fragments) ==
    IF fragments = <<>> THEN FloatZero
    ELSE float_round(exact_add(FloatSumOf(SubSeq(fragments, 1, Len(fragments) - 1)),
                               DecayedValue(fragments[Len(fragments)])))

\* the sum of the same decayed values as a real number, not rounded
RECURSIVE ExactSumOf(_)
ExactSumOf(fragments) ==
    IF fragments = <<>> THEN FloatZero
    ELSE exact_add(DecayedValue(fragments[1]), ExactSumOf(Tail(fragments)))

SummedValue(frags, c) == FloatSumOf(FragmentsOfIdentity(frags, c))

ExactSummedValue(frags, c) == ExactSumOf(FragmentsOfIdentity(frags, c))

\* the rank of c in the order of first fragment emission after resolution
FirstSeen(frags, c) ==
    CHOOSE i \in DOMAIN frags :
        /\ IdentityOf(frags[i][1]) = c
        /\ \A j \in DOMAIN frags : IdentityOf(frags[j][1]) = c => i <= j

CountOf(d, k) == IF DictHas(d, k) THEN DictGet(d, k) ELSE 0

\* the knowledge tally after a file that gives c the value v
KnowledgeAfter(d, c, v) ==
    IF DictHas(d, c) THEN float_round(exact_add(DictGet(d, c), v)) ELSE v

\* the identities whose count of authored files the step raised
Credited == {c \in Keys(authored_files') : CountOf(authored_files', c) # CountOf(authored_files, c)}

\* the knowledge tally gains, once per canonical identity of the file, the
\* float sum of that identity's decayed values
FileValuesTallied(frags) ==
    LET ids == FileIdentities(frags)
    IN /\ Keys(knowledge_base') = Keys(knowledge_base) \cup ids
       /\ \A c \in Keys(knowledge_base') :
              DictGet(knowledge_base', c) =
                  IF c \in ids THEN KnowledgeAfter(knowledge_base, c, SummedValue(frags, c))
                  ELSE DictGet(knowledge_base, c)

\* C13 as stated, the sums compared as the numbers they stand for: the
\* file is credited to one identity whose summed value is maximal, and
\* among several identities of equal summed value to the one whose first
\* fragment comes first.
C13_Original ==
    [][ (own_pc = "folding" /\ own_fn = "compute_ownership"
         /\ next_file' = next_file + 1) =>
            LET frags == FoldedFragments
                ids == FileIdentities(frags)
            IN /\ FileValuesTallied(frags)
               /\ \E p \in ids :
                      /\ Credited = {p}
                      /\ CountOf(authored_files', p) = CountOf(authored_files, p) + 1
                      /\ \A c \in ids :
                             exact_le(ExactSummedValue(frags, c), ExactSummedValue(frags, p))
                      /\ \A c \in ids :
                             ExactSummedValue(frags, c) = ExactSummedValue(frags, p) =>
                                 FirstSeen(frags, p) <= FirstSeen(frags, c) ]_vars

\* C13: folding a file adds to the knowledge tally, once per canonical
\* identity of the file, the float sum of the decayed values of that
\* identity's fragments (added in the order of their emission), and credits
\* the file to one identity whose float sum is maximal; among several
\* identities whose float sums are equal, to the one whose first fragment
\* comes first.
C13_PrimaryAuthorFirstMaximal ==
    [][ (own_pc = "folding" /\ own_fn = "compute_ownership"
         /\ next_file' = next_file + 1) =>
            LET frags == FoldedFragments
                ids == FileIdentities(frags)
            IN /\ FileValuesTallied(frags)
               /\ \E p \in ids :
                      /\ Credited = {p}
                      /\ CountOf(authored_files', p) = CountOf(authored_files, p) + 1
                      /\ \A c \in ids : exact_le(SummedValue(frags, c), SummedValue(frags, p))
                      /\ \A c \in ids :
                             SummedValue(frags, c) = SummedValue(frags, p) =>
                                 FirstSeen(frags, p) <= FirstSeen(frags, c) ]_vars

\* two files have been folded.  In the first a@x, then b@x, each have
\* several fragments; their sums are the same number, but the float sum of
\* b@x is the larger and b@x is credited.  In the second the float sums of
\* b@x, then a@x, are equal, and b@x, met first, is credited.
C13_Witness ==
    /\ own_pc = "folding"
    /\ own_fn = "compute_ownership"
    /\ next_file = 3
    /\ mail_map = <<>>
    /\ LET frags == parse_log(blame_logs[1].lines, blame_logs[1].path)
       IN /\ Len(frags) = 2
          /\ frags[1][1] = "a@x"
          /\ frags[2][1] = "b@x"
          /\ Len(frags[1][2]) > 1
          /\ Len(frags[2][2]) > 1
          /\ ExactSumOf(frags[1][2]) = ExactSumOf(frags[2][2])
          /\ exact_lt(FloatSumOf(frags[1][2]), FloatSumOf(frags[2][2]))
    /\ LET frags == parse_log(blame_logs[2].lines, blame_logs[2].path)
       IN /\ Len(frags) = 2
          /\ frags[1][1] = "b@x"
          /\ frags[2][1] = "a@x"
          /\ FloatSumOf(frags[1][2]) = FloatSumOf(frags[2][2])
          /\ exact_lt(FloatZero, FloatSumOf(frags[1][2]))
    /\ authored_files = << <<"b@x", 2>> >>

---------------------------------------------------------------------------
(* Properties of parse_log on blocks without metadata, under SpecParse *)

\* the email of the latest author-mail line among the first i blocks, the
\* empty string when there is none
RECURSIVE MailInForce(_, _)
MailInForce(blocks, i) ==
    IF i = 0 THEN ""
    ELSE IF blocks[i][2] # <<>> THEN blocks[i][2][1]
    ELSE MailInForce(blocks, i - 1)

\* the time of the latest author-time line among the first i blocks, the
\* epoch when there is none
RECURSIVE TimeInForce(_, _)
TimeInForce(blocks, i) ==
    IF i = 0 THEN 0
    ELSE IF blocks[i][3] # <<>> THEN blocks[i][3][1]
    ELSE TimeInForce(blocks, i - 1)

\* block i gives a fragment when its count is > 0 or it is the last one
GivesFragment(blocks, i) == blocks[i][1] > 0 \/ i = Len(blocks)

\* the fragments of blocks k..n that fall under email e, in header order
RECURSIVE FragmentsInForce(_, _, _)
FragmentsInForce(blocks, k, e) ==
    IF k > Len(blocks) THEN <<>>
    ELSE (IF GivesFragment(blocks, k) /\ MailInForce(blocks, k) = e
          THEN <<Commit(blocks[k][1], TimeInForce(blocks, k), LogPath)>>
          ELSE <<>>) \o FragmentsInForce(blocks, k + 1, e)

\* C14: a header line leaves the current email and the current timestamp
\* (and the author name) as they are; hence, when parse_log returns, the
\* fragment of every header is filed under the email and with the timestamp
\* most recently parsed at that point, under the empty email and the epoch
\* when no author-mail or author-time line came before, and parse_log
\* returns for every such log.
C14_HeaderKeepsEmailAndTimestamp ==
    [][ /\ (~parse_done /\ pos <= Len(log) /\ log[pos].kind = "sha") =>
              /\ parser'.authorEmail = parser.authorEmail
              /\ parser'.timestamp = parser.timestamp
              /\ parser'.author = parser.author
              /\ parser'.authors = parser.authors
        /\ (~parse_done /\ parse_done' /\ blame_blocks # <<>>) =>
              /\ Keys(parser'.commits) =
                     {MailInForce(blame_blocks, i) :
                          i \in {j \in DOMAIN blame_blocks : GivesFragment(blame_blocks, j)}}
              /\ \A e \in Keys(parser'.commits) :
                     DictGet(parser'.commits, e) = FragmentsInForce(blame_blocks, 1, e) ]_vars

\* parse_log has returned from a log of two blocks, the second a bare
\* header after a block with its own email and time: both fragments are
\* under the first block's email, with its time
C14_Witness ==
    /\ parse_done
    /\ Len(blame_blocks) = 2
    /\ blame_blocks[1][1] > 0 /\ blame_blocks[1][2] # <<>> /\ blame_blocks[1][3] # <<>>
    /\ blame_blocks[2][1] > 0 /\ blame_blocks[2][2] = <<>> /\ blame_blocks[2][3] = <<>>
    /\ parser.commits =
           << <<blame_blocks[1][2][1],
                <<Commit(blame_blocks[1][1], blame_blocks[1][3][1], LogPath),
                  Commit(blame_blocks[2][1], blame_blocks[1][3][1], LogPath)>> >> >>

---------------------------------------------------------------------------
(* Properties of generate_blame_logs, under SpecGenerate *)

\* the number of entries of a list equal to x
Occurrences(l, x) == Cardinality({i \in DOMAIN l : l[i] = x})

IncludedFiles == {tracked_files[i] : i \in {j \in DOMAIN tracked_files :
                                             file_extension(tracked_files[j]) \in included_files}}

\* one entry per tracked file: the log path of each included file once,
\* and one None per file of an omitted extension
OneEntryPerFile(l) ==
    /\ Len(l) = Len(tracked_files)
    /\ \A f \in IncludedFiles : Occurrences(l, path_to_log(f)) = 1
    /\ Occurrences(l, None) = Len(tracked_files) - Cardinality(IncludedFiles)

\* the thread has ended
Ended(thread) == thread.pc \in {"finished", "raised"}

\* C15: once generate_blame_logs has returned, and so whenever the
\* aggregation of run is under way, every worker thread has ended and the
\* returned list holds exactly one entry per tracked file (its log path, or
\* None for an omitted extension), whatever the order in which the workers
\* ran and called add_logs.
C15_AllJoinedBeforeReturn ==
    gen_pc \in {"returned", "aggregating"} =>
        /\ \A w \in DOMAIN threads : Ended(threads[w])
        /\ lock = 0
        /\ OneEntryPerFile(returned_logs)

=============================================================================
